---- MODULE Spec2Model ----
(***************************************************************************)
(* JobParbreak: a coordinator (Server) hands shell-command jobs to worker  *)
(* agents (Client) over one framed connection per agent.  The coordinator  *)
(* keeps one Worker session object per connection.  All coordinator        *)
(* handlers run on one event loop, so every handler is one atomic action;  *)
(* signals between Worker and Server are direct connections and run        *)
(* inside the emitting handler.                                            *)
(***************************************************************************)
EXTENDS Integers, Sequences, FiniteSets, TLC

\* ------------------------------------------------------------------ bounds
MaxJobs == 2        \* job ids minted by QUuid::createUuid over a run
MaxLines == 2       \* lines of one ingested text file
MaxWorkers == 2     \* connections accepted over a run
MaxRestore == 2     \* restore commands over a run
MaxSave == 1        \* accepted haltsave commands over a run
MaxOutcomes == 2    \* outcomes a session handles before its peer falls silent

\* --------------------------------------------------------------- constants
\* enum class JobStatus
PENDING == "PENDING"
IN_WORK == "IN_WORK"
DONE == "DONE"
FAILED == "FAILED"

NullId == 0                     \* QUuid(): the null uuid
JobIds == 1..MaxJobs            \* uuids minted by ingestion, in minting order
GarbageId == MaxJobs + 1        \* a uuid read from memory that holds no record
Keys == JobIds \cup {NullId, GarbageId}
WorkerIds == 0..(MaxWorkers - 1)
Lines == {"job", ""}            \* a command line, and the empty line
NoAssignment == [none |-> TRUE] \* std::nullopt
NoFile == [exists |-> FALSE]    \* the save file does not exist
NoRecord == [norecord |-> TRUE] \* the hash holds no record under a key
NoMessage == [nomessage |-> TRUE]
NoCodec == [stage |-> "none"]   \* no message is being converted
NoExit == [noexit |-> TRUE]     \* no subprocess has been seen to finish

VARIABLES
    crashed,            \* the coordinator process has aborted
    m_jobs,             \* Server::m_jobs: key -> JobRecord, or NoRecord
    m_pending_jobs,     \* Server::m_pending_jobs
    m_failed_jobs,      \* Server::m_failed_jobs
    m_clients,          \* Server::m_clients, as worker ids
    m_next_worker_id,   \* Server::m_next_worker_id
    sessions,           \* the Worker objects: life and m_assignment
    toClient,           \* frames in flight, coordinator -> agent
    toServer,           \* frames in flight, agent -> coordinator
    agents,             \* the Client processes: m_assignment and m_process
    savefile,           \* the file haltsave writes and restore reads
    minted,             \* how many uuids createUuid has returned
    nRestore,           \* restore commands so far
    nSave,              \* accepted haltsave commands so far
    enq,                \* history: every id appended to m_pending_jobs
    deq,                \* history: every id dequeued from m_pending_jobs
    enqMark,            \* history: Len(enq) at the last clear pending
    deqMark,            \* history: Len(deq) at the last clear pending
    sent,               \* history: assignments given to each session
    done,               \* history: outcomes each session has emitted
    lastFailed,         \* history: the last message on_worker_failed was given
    atSend,             \* history: each session as its last Assignment went out
    codec,              \* a message on its way through encode_message and decode_message
    mainProc,           \* main(): where it is, its arguments, its return value
    lastExit            \* what QProcess::finished last reported, and to which agent

vars == <<crashed, m_jobs, m_pending_jobs, m_failed_jobs, m_clients,
          m_next_worker_id, sessions, toClient, toServer, agents, savefile,
          minted, nRestore, nSave, enq, deq, enqMark, deqMark, sent, done,
          lastFailed, atSend, codec, mainProc, lastExit>>

\* everything but the abort flag
state == <<m_jobs, m_pending_jobs, m_failed_jobs, m_clients,
           m_next_worker_id, sessions, toClient, toServer, agents, savefile,
           minted, nRestore, nSave, enq, deq, enqMark, deqMark, sent, done,
           lastFailed, atSend, codec, mainProc, lastExit>>

\* ------------------------------------------------------------------- codec
\* QUuid::toString(): the braced form; QUuid(QString): braced or bare,
\* anything else is the null uuid.
UuidToString(id) == [braces |-> TRUE, hex |-> id]

UuidFromString(s) ==
    IF DOMAIN s = {"braces", "hex"} THEN s.hex ELSE NullId

\* the text read under a key the writer did not use
JsonText_absent(obj, k) == ""

\* QJsonValue::toString(): the string, or "" when the value is absent.
JsonText(obj, k) == IF k \in DOMAIN obj THEN obj[k] ELSE ""

JsonUuid(obj, k) == IF k \in DOMAIN obj THEN UuidFromString(obj[k]) ELSE NullId

MessageAssignment(id, command) ==
    [kind |-> "assignment", id |-> id, command |-> command]

MessageSuccess(id, out, err) ==
    [kind |-> "success", completed |-> id, std_out |-> out, std_err |-> err]

MessageFailed(id, out, err) ==
    [kind |-> "failed", failed |-> id, std_out |-> out, std_err |-> err]

Monostate == [kind |-> "monostate"]

encode_message(m) ==
    CASE m.kind = "assignment" ->
            [assignment |-> [id |-> UuidToString(m.id), command |-> m.command]]
      [] m.kind = "success" ->
            [success |-> [id |-> UuidToString(m.completed),
                          std_out |-> m.std_out, std_err |-> m.std_err]]
      [] m.kind = "failed" ->
            [failed |-> [id |-> UuidToString(m.failed),
                         std_out |-> m.std_out, std_err |-> m.std_err]]

\* bytes that are no JSON document
Malformed == [malformed |-> TRUE]

\* QJsonDocument::fromJson(data).object(): the object, which is empty when
\* the bytes do not parse
fromJson(data) == IF data = Malformed THEN << >> ELSE data

decode_message(data) ==
    LET obj == fromJson(data)
    IN  IF "assignment" \in DOMAIN obj
        THEN MessageAssignment(JsonUuid(obj.assignment, "id"),
                               JsonText(obj.assignment, "command"))
        ELSE IF "success" \in DOMAIN obj
        THEN MessageSuccess(JsonUuid(obj.success, "id"),
                            JsonText(obj.success, "std_out"),
                            JsonText(obj.success, "std_err"))
        ELSE IF "failed" \in DOMAIN obj
        THEN MessageFailed(JsonUuid(obj.failed, "id"),
                           JsonText(obj.failed, "std_out"),
                           JsonText(obj.failed, "std_err"))
        ELSE Monostate

\* --------------------------------------------------------- coordinator state
\* The coordinator's handlers call one another; each is an operator from
\* the coordinator state S (a record of the variables it touches) to the
\* state it leaves.  A handler that runs after an abort does nothing.
\* S.ndebug is the build: TRUE when assert() is compiled out, so that a
\* failed assertion is passed over instead of aborting the process.
Builds == BOOLEAN

Coord(ndebug) ==
    [ndebug |-> ndebug, crashed |-> crashed, jobs |-> m_jobs, pending |-> m_pending_jobs,
     failed |-> m_failed_jobs, clients |-> m_clients, sessions |-> sessions,
     toClient |-> toClient, enq |-> enq, deq |-> deq, sent |-> sent,
     done |-> done, lastFailed |-> lastFailed, atSend |-> atSend]

SetCoord(S) ==
    /\ crashed' = S.crashed
    /\ m_jobs' = S.jobs
    /\ m_pending_jobs' = S.pending
    /\ m_failed_jobs' = S.failed
    /\ m_clients' = S.clients
    /\ sessions' = S.sessions
    /\ toClient' = S.toClient
    /\ enq' = S.enq
    /\ deq' = S.deq
    /\ sent' = S.sent
    /\ done' = S.done
    /\ lastFailed' = S.lastFailed
    /\ atSend' = S.atSend

\* A handler leaves the state S and does `rest`; a handler that aborted
\* leaves a dead process, shown as the state before it with the flag set.
Handler(S, rest) ==
    IF S.crashed
    THEN crashed' = TRUE /\ UNCHANGED state
    ELSE SetCoord(S) /\ rest

Abort(S) == [S EXCEPT !.crashed = TRUE]

\* JobRecord(): what QHash::operator[] inserts for a key it does not hold.
DefaultRecord == [id |-> NullId, command |-> "", status |-> PENDING]

\* m_jobs.count(k)
Holds(jobs, k) == jobs[k] # NoRecord

\* m_jobs[k]: a reference to the record, inserted when absent.
Touch(jobs, k) ==
    IF Holds(jobs, k) THEN jobs ELSE [jobs EXCEPT ![k] = DefaultRecord]

SetStatus(jobs, k, st) == [Touch(jobs, k) EXCEPT ![k].status = st]

\* a has_assignment that never sees the assignment
has_assignment_never(S, w) == FALSE

has_assignment(S, w) == S.sessions[w].m_assignment # NoAssignment

\* Worker::on_new_work_assigned.  The frame reaches the agent only while
\* the socket is open.
on_new_work_assigned(S, w, a) ==
    IF has_assignment(S, w) /\ ~S.ndebug THEN Abort(S)
    ELSE [S EXCEPT
            !.sessions[w].m_assignment = a,
            !.sent[w] = @ + 1,
            !.atSend[w] = [done |-> S.done[w], idle |-> ~has_assignment(S, w)],
            !.toClient[w] =
                IF S.sessions[w].life = "live"
                THEN Append(@, encode_message(MessageAssignment(a.id, a.command)))
                ELSE @]

\* QQueue::dequeue: the item taken and the queue left
dequeue_last(q) == [item |-> q[Len(q)], rest |-> SubSeq(q, 1, Len(q) - 1)]

dequeue(q) == [item |-> Head(q), rest |-> Tail(q)]

\* Server::assign_work_to
assign_work_to(S, w) ==
    IF S.crashed THEN S
    ELSE IF S.pending = <<>> THEN S
    ELSE IF has_assignment(S, w) THEN S
    ELSE LET next == dequeue(S.pending).item
             S1 == [S EXCEPT !.pending = dequeue(S.pending).rest,
                             !.deq = Append(@, next)]
         IN  IF ~Holds(S.jobs, next) /\ ~S.ndebug THEN Abort(S1)
             ELSE LET jobs1 == SetStatus(S1.jobs, next, IN_WORK)
                      S2 == [S1 EXCEPT !.jobs = jobs1]
                  IN  on_new_work_assigned(S2, w,
                          [id |-> jobs1[next].id, command |-> jobs1[next].command])

\* a want_new_work that nothing is connected to
on_worker_wants_work_unconnected(S, w) == S

\* Server::on_worker_wants_work
on_worker_wants_work(S, w) == assign_work_to(S, w)

\* Worker::on_new_work_available, for a Worker object that exists
on_new_work_available(S, w) ==
    IF S.crashed THEN S
    ELSE IF has_assignment(S, w) THEN S
    ELSE on_worker_wants_work(S, w)

\* emit work_available: the slots run in the order the sessions were
\* connected, which is the order of their ids; a deleted session has none.
RECURSIVE work_available_from(_, _)
work_available_from(S, w) ==
    IF w >= MaxWorkers THEN S
    ELSE work_available_from(
            IF S.sessions[w].life \in {"live", "zombie"}
            THEN on_new_work_available(S, w) ELSE S,
            w + 1)

work_available(S) == work_available_from(S, 0)

\* Server::enqueue
RECURSIVE enqueue_items(_, _)
enqueue_items(S, new_items) ==
    IF new_items = <<>> THEN S
    ELSE enqueue_items([S EXCEPT !.pending = Append(@, Head(new_items)),
                                 !.enq = Append(@, Head(new_items))],
                       Tail(new_items))

enqueue(S, new_items) == work_available(enqueue_items(S, new_items))

\* Server::on_worker_failed
on_worker_failed(S, m) ==
    [S EXCEPT !.jobs = SetStatus(@, m.failed, FAILED),
              !.failed = Append(@, m.failed),
              !.lastFailed = m]

\* Server::on_worker_success
on_worker_success(S, m) ==
    [S EXCEPT !.jobs = SetStatus(@, m.completed, DONE)]

\* on_message with want_new_work emitted ahead of success
on_message_success_early(S, w, m) ==
    LET S1 == [S EXCEPT !.sessions[w].m_assignment = NoAssignment]
        S2 == on_worker_wants_work(S1, w)
    IN  on_worker_success([S2 EXCEPT !.done[w] = @ + 1], m)

\* Worker::on_message(MessageSuccess const&)
on_message_success(S, w, m) ==
    IF ~S.ndebug /\ (~has_assignment(S, w) \/ m.completed # S.sessions[w].m_assignment.id)
    THEN Abort(S)
    ELSE LET S1 == [S EXCEPT !.sessions[w].m_assignment = NoAssignment]
             S2 == on_worker_success([S1 EXCEPT !.done[w] = @ + 1], m)
         IN  on_worker_wants_work(S2, w)

\* Worker::on_message(MessageFailed const&)
on_message_failed(S, w, m) ==
    IF ~S.ndebug /\ (~has_assignment(S, w) \/ m.failed # S.sessions[w].m_assignment.id)
    THEN Abort(S)
    ELSE LET S1 == [S EXCEPT !.sessions[w].m_assignment = NoAssignment]
             S2 == on_worker_failed([S1 EXCEPT !.done[w] = @ + 1], m)
         IN  on_worker_wants_work(S2, w)

\* an on_data that gives up the assignment on a frame it has no use for
on_data_resetting(S, w, data) ==
    LET message == decode_message(data)
    IN  CASE message.kind = "monostate" ->
                [S EXCEPT !.sessions[w].m_assignment = NoAssignment]
          [] message.kind = "assignment" ->
                [S EXCEPT !.sessions[w].m_assignment = NoAssignment]
          [] message.kind = "success" -> on_message_success(S, w, message)
          [] message.kind = "failed" -> on_message_failed(S, w, message)

\* Worker::on_text: the text is logged
on_text(S, w, text) == S

\* a frame the socket reports with textMessageReceived
TextFrame(text) == [text |-> text]

IsTextFrame(f) == DOMAIN f = {"text"}

\* Worker::on_data, after the frame is taken off the socket
on_data(S, w, data) ==
    LET message == decode_message(data)
    IN  CASE message.kind = "monostate" -> S
          [] message.kind = "assignment" -> S
          [] message.kind = "success" -> on_message_success(S, w, message)
          [] message.kind = "failed" -> on_message_failed(S, w, message)

\* Server::on_client_lost
on_client_lost(S, w) == [S EXCEPT !.clients = @ \ {w}]

\* the failure Worker::on_conn_closed emits for the assignment it holds
closed_failure_twice(S, w) ==
    LET f == MessageFailed(S.sessions[w].m_assignment.id, "Connection closed", "")
    IN  on_worker_failed(on_worker_failed([S EXCEPT !.done[w] = @ + 2], f), f)

closed_failure(S, w) ==
    on_worker_failed([S EXCEPT !.done[w] = @ + 1],
                     MessageFailed(S.sessions[w].m_assignment.id,
                                   "Connection closed", ""))

\* Worker::on_conn_closed: the session and its socket are left to deleteLater
on_conn_closed(S, w) ==
    LET S1 == IF has_assignment(S, w) THEN closed_failure(S, w) ELSE S
        S2 == on_client_lost(S1, w)
    IN  [S2 EXCEPT !.sessions[w].life = "zombie", !.toClient[w] = << >>]

Init ==
    /\ crashed = FALSE
    /\ m_jobs = [k \in Keys |-> NoRecord]
    /\ m_pending_jobs = << >>
    /\ m_failed_jobs = << >>
    /\ m_clients = {}
    /\ m_next_worker_id = 0
    /\ sessions = [w \in WorkerIds |-> [life |-> "unborn", m_assignment |-> NoAssignment]]
    /\ toClient = [w \in WorkerIds |-> << >>]
    /\ toServer = [w \in WorkerIds |-> << >>]
    /\ agents = [w \in WorkerIds |-> [m_assignment |-> NoAssignment, m_process |-> FALSE]]
    /\ savefile = NoFile
    /\ minted = 0
    /\ nRestore = 0
    /\ nSave = 0
    /\ enq = << >>
    /\ deq = << >>
    /\ enqMark = 0
    /\ deqMark = 0
    /\ sent = [w \in WorkerIds |-> 0]
    /\ done = [w \in WorkerIds |-> 0]
    /\ lastFailed = NoMessage
    /\ atSend = [w \in WorkerIds |-> [done |-> 0, idle |-> TRUE]]
    /\ codec = NoCodec
    /\ mainProc = [pc |-> "none"]
    /\ lastExit = NoExit

\* ------------------------------------------------- coordinator: connections
\* the counter left where it is
same_worker_id(n) == n

\* m_next_worker_id++
next_worker_id(n) == n + 1

\* Server::on_new_connection
NewConnection ==
    /\ ~crashed
    /\ m_next_worker_id < MaxWorkers
    /\ \E ndebug \in Builds :
       LET w == m_next_worker_id
           S1 == [Coord(ndebug) EXCEPT !.sessions[w].life = "live",
                                       !.clients = @ \cup {w}]
       IN  Handler(assign_work_to(S1, w),
                   /\ m_next_worker_id' = next_worker_id(m_next_worker_id)
                   /\ UNCHANGED <<toServer, agents, savefile, minted, codec, mainProc, lastExit,
                                  nRestore, nSave, enqMark, deqMark>>)

\* The transport reports `disconnected` for session w (the link dropped,
\* or the agent went away): Worker::on_conn_closed on the coordinator,
\* Client::on_closed on the agent, whose process quits.  Frames in flight
\* are lost.
CloseEffects(w) ==
    \E ndebug \in Builds :
    Handler(on_conn_closed(Coord(ndebug), w),
            /\ toServer' = [toServer EXCEPT ![w] = << >>]
            /\ agents' = [agents EXCEPT
                            ![w] = [m_assignment |-> NoAssignment, m_process |-> FALSE]]
            /\ UNCHANGED <<m_next_worker_id, savefile, minted, codec, mainProc, lastExit, nRestore,
                           nSave, enqMark, deqMark>>)

ConnectionLost(w) ==
    /\ ~crashed
    /\ sessions[w].life = "live"
    /\ CloseEffects(w)

\* Server::c_worker, subcommand drop: Worker::kill closes the socket of the
\* session in m_clients with that worker id.
WorkerDrop(int_id) ==
    /\ ~crashed
    /\ \E w \in m_clients : w = int_id /\ CloseEffects(w)

\* The deferred delete of a closed session runs: the object is gone and
\* with it its connection to work_available.
DeferredDelete(w) ==
    /\ ~crashed
    /\ sessions[w].life = "zombie"
    /\ sessions' = [sessions EXCEPT ![w].life = "deleted"]
    /\ UNCHANGED <<crashed, m_jobs, m_pending_jobs, m_failed_jobs,
                   m_clients, m_next_worker_id, toClient, toServer, agents,
                   savefile, minted, codec, mainProc, lastExit, nRestore, nSave, enq, deq, enqMark,
                   deqMark, sent, done, lastFailed, atSend>>

\* Worker::on_data for the next frame from the agent of session w
WorkerOnData(w) ==
    /\ ~crashed
    /\ sessions[w].life = "live"
    /\ toServer[w] # << >>
    /\ ~IsTextFrame(Head(toServer[w]))
    /\ \E ndebug \in Builds :
       Handler(on_data(Coord(ndebug), w, Head(toServer[w])),
               /\ toServer' = [toServer EXCEPT ![w] = Tail(@)]
               /\ UNCHANGED <<m_next_worker_id, agents, savefile, minted, codec, mainProc, lastExit,
                              nRestore, nSave, enqMark, deqMark>>)

\* ------------------------------------------------------ coordinator: console
\* The text files an operator can name: up to MaxLines lines.
TextFiles == UNION {[1..n -> Lines] : n \in 0..MaxLines}

\* the loop of Server::add_file; the n-th uuid minted is n
RECURSIVE add_lines(_, _, _)
add_lines(S, lines, n) ==
    IF lines = << >> THEN S
    ELSE LET rec == [id |-> n + 1, command |-> Head(lines), status |-> PENDING]
         IN  add_lines([S EXCEPT !.jobs[rec.id] = rec,
                                 !.pending = Append(@, rec.id),
                                 !.enq = Append(@, rec.id)],
                       Tail(lines), n + 1)

\* Server::add_file (c_add, and --txtfile at start-up) for a readable file
add_file(S, lines) == work_available(add_lines(S, lines, minted))

AddFile(lines) ==
    /\ ~crashed
    /\ minted + Len(lines) <= MaxJobs
    /\ \E ndebug \in Builds :
       Handler(add_file(Coord(ndebug), lines),
               /\ minted' = minted + Len(lines)
               /\ UNCHANGED <<m_next_worker_id, toServer, agents, codec, mainProc, lastExit,
                              savefile, nRestore, nSave, enqMark, deqMark>>)

\* a clear that empties the list of failed jobs as well
c_clear_failed_too(S) == [S EXCEPT !.pending = << >>, !.failed = << >>]

\* Server::c_clear with argument "pending"
c_clear(S) == [S EXCEPT !.pending = << >>]

ClearPending ==
    /\ ~crashed
    /\ \E ndebug \in Builds :
       Handler(c_clear(Coord(ndebug)),
               /\ enqMark' = Len(enq)
               /\ deqMark' = Len(deq)
               /\ UNCHANGED <<m_next_worker_id, toServer, agents,
                              savefile, minted, codec, mainProc, lastExit, nRestore, nSave>>)

\* operator<<(QDataStream&, JobStatus) and operator>>: the status travels
\* as the enumerator's underlying value and is cast back; a value that is
\* no enumerator's stays a status that equals none of them.
StatusToStream(st) ==
    CASE st = PENDING -> 0
      [] st = IN_WORK -> 1
      [] st = DONE -> 2
      [] st = FAILED -> 3

StatusFromStream(v) ==
    CASE v = 0 -> PENDING
      [] v = 1 -> IN_WORK
      [] v = 2 -> DONE
      [] v = 3 -> FAILED
      [] OTHER -> "UNNAMED"

\* operator<<(QDataStream&, JobRecord) / operator>>
RecordToStream(r) ==
    [id |-> r.id, command |-> r.command, status |-> StatusToStream(r.status)]
RecordFromStream(e) ==
    [id |-> e.id, command |-> e.command, status |-> StatusFromStream(e.status)]

\* outf << m_jobs: the entries of the hash, by key
HashToStream(jobs) ==
    [k \in {x \in Keys : Holds(jobs, x)} |-> RecordToStream(jobs[k])]

\* inf >> tmp
HashFromStream(f) ==
    [k \in Keys |-> IF k \in DOMAIN f THEN RecordFromStream(f[k]) ELSE NoRecord]

\* the guards of Server::c_haltsave without the loop over m_jobs
haltsave_allowed_queue_only(S) == S.pending = << >>

\* the guards of Server::c_haltsave
haltsave_allowed(S) ==
    /\ S.pending = << >>
    /\ \A k \in Keys : Holds(S.jobs, k) => S.jobs[k].status # IN_WORK

\* Server::c_haltsave <path>, the file writable: a refused command returns
\* before the file is opened.
HaltSave ==
    /\ ~crashed
    /\ nSave < MaxSave
    /\ IF haltsave_allowed(Coord(TRUE))
       THEN /\ savefile' = [exists |-> TRUE, stream |-> HashToStream(m_jobs)]
            /\ nSave' = nSave + 1
       ELSE UNCHANGED <<savefile, nSave>>
    /\ UNCHANGED <<crashed, m_jobs, m_pending_jobs, m_failed_jobs,
                   m_clients, m_next_worker_id, sessions, toClient, toServer,
                   agents, minted, codec, mainProc, lastExit, nRestore, enq, deq, enqMark, deqMark, sent,
                   done, lastFailed, atSend>>

\* The while loop of Server::c_restore over tmp, whose iteration order is
\* `order`.  A Pending entry advances the iterator and then reads the id
\* under it; at the last entry that read is of end().  Returns the records
\* kept, the ids collected, and whether end() was read.
RECURSIVE restore_loop(_, _, _)
restore_loop(acc, order, i) ==
    IF i > Len(order) THEN acc
    ELSE IF acc.tmp[order[i]].status = PENDING
    THEN IF i + 1 > Len(order)
         THEN [acc EXCEPT !.end_read = TRUE]
         ELSE restore_loop(
                [acc EXCEPT !.to_add = Append(@, acc.tmp[order[i + 1]].id)],
                order, i + 1)
    ELSE restore_loop([acc EXCEPT !.tmp[order[i]] = NoRecord], order, i + 1)

\* m_jobs.insert(tmp) / the Qt 5 loop: tmp's records overwrite
merge_jobs(jobs, tmp) ==
    [k \in Keys |-> IF Holds(tmp, k) THEN tmp[k] ELSE jobs[k]]

\* Server::c_restore from the merge on
restore_finish(S, tmp, to_add) ==
    enqueue([S EXCEPT !.jobs = merge_jobs(@, tmp)], to_add)

\* the orders a hash over the key set K can be iterated in
Orders(K) ==
    {o \in [1..Cardinality(K) -> K] : \A i, j \in 1..Cardinality(K) : i # j => o[i] # o[j]}

\* Server::c_restore <path>, the file readable.  Reading the value of
\* end() is undefined: the process dies (Qt 6: the end iterator is null),
\* or the read yields the bytes behind the hash header (Qt 5), a uuid
\* that no record has.
Restore ==
    /\ ~crashed
    /\ nRestore < MaxRestore
    /\ savefile.exists
    /\ \E order \in Orders(DOMAIN savefile.stream), ndebug \in Builds :
         LET r == restore_loop([tmp |-> HashFromStream(savefile.stream),
                                to_add |-> << >>, end_read |-> FALSE],
                               order, 1)
             rest == /\ nRestore' = nRestore + 1
                     /\ UNCHANGED <<m_next_worker_id, toServer, agents,
                                    savefile, minted, codec, mainProc, lastExit, nSave, enqMark, deqMark>>
         IN  IF r.end_read
             THEN \/ Handler(Abort(Coord(ndebug)), rest)
                  \/ Handler(restore_finish(Coord(ndebug), r.tmp,
                                             Append(r.to_add, GarbageId)), rest)
             ELSE Handler(restore_finish(Coord(ndebug), r.tmp, r.to_add), rest)

\* ------------------------------------------------------------------- agent
\* Client::on_assignment without the test of m_assignment
on_assignment_unguarded(a, m) ==
    [agent |-> [m_assignment |-> m, m_process |-> TRUE], reply |-> << >>]

\* Client::on_assignment
on_assignment(a, m) ==
    IF a.m_assignment # NoAssignment
    THEN [agent |-> a,
          reply |-> <<encode_message(MessageFailed(m.id, "Already have assignment!", ""))>>]
    ELSE [agent |-> [m_assignment |-> m, m_process |-> TRUE], reply |-> << >>]

\* Client::on_data for the next frame from the coordinator.  An empty
\* message is fatal: the agent process ends and the transport closes.
ClientOnData(w) ==
    /\ ~crashed
    /\ sessions[w].life = "live"
    /\ toClient[w] # << >>
    /\ LET message == decode_message(Head(toClient[w]))
       IN  CASE message.kind = "assignment" ->
                   LET r == on_assignment(agents[w], message)
                   IN  /\ agents' = [agents EXCEPT ![w] = r.agent]
                       /\ toServer' = [toServer EXCEPT ![w] = @ \o r.reply]
                       /\ toClient' = [toClient EXCEPT ![w] = Tail(@)]
                       /\ UNCHANGED <<crashed, m_jobs, m_pending_jobs,
                                      m_failed_jobs, m_clients, m_next_worker_id,
                                      sessions, savefile, minted, codec, mainProc, lastExit, nRestore, nSave,
                                      enq, deq, enqMark, deqMark, sent, done,
                                      lastFailed, atSend>>
             [] message.kind = "monostate" -> CloseEffects(w)
             [] OTHER ->
                   /\ toClient' = [toClient EXCEPT ![w] = Tail(@)]
                   /\ UNCHANGED <<crashed, m_jobs, m_pending_jobs,
                                  m_failed_jobs, m_clients, m_next_worker_id,
                                  sessions, toServer, agents, savefile, minted, codec, mainProc, lastExit,
                                  nRestore, nSave, enq, deq, enqMark, deqMark,
                                  sent, done, lastFailed, atSend>>

\* what the subprocess wrote, as the agent reads it when it has finished
Outputs == {""}

\* a result that goes by the exit code alone
on_process_finished_by_code(a, exit_code, normal_exit, std_out, std_err) ==
    IF exit_code = 0
    THEN MessageSuccess(a.m_assignment.id, std_out, std_err)
    ELSE MessageFailed(a.m_assignment.id, std_out, std_err)

\* Client::on_process_finished: the result message for the exit it saw
on_process_finished(a, exit_code, normal_exit, std_out, std_err) ==
    IF exit_code = 0 /\ normal_exit
    THEN MessageSuccess(a.m_assignment.id, std_out, std_err)
    ELSE MessageFailed(a.m_assignment.id, std_out, std_err)

ExitCodes == {0, 1}

\* QProcess::finished(exit_code, status) reaches the agent of connection w
Finished(w, exit_code, normal_exit) ==
    /\ ~crashed
    /\ sessions[w].life = "live"
    /\ agents[w].m_process
    /\ \E out \in Outputs :
         /\ toServer' = [toServer EXCEPT ![w] =
               Append(@, encode_message(
                   on_process_finished(agents[w], exit_code, normal_exit, out, "")))]
         /\ agents' = [agents EXCEPT ![w] = [m_assignment |-> NoAssignment,
                                             m_process |-> FALSE]]
    /\ UNCHANGED <<crashed, m_jobs, m_pending_jobs, m_failed_jobs,
                   m_clients, m_next_worker_id, sessions, toClient, savefile,
                   minted, codec, mainProc, nRestore, nSave, enq, deq,
                   enqMark, deqMark, sent, done, lastFailed, atSend>>

ProcessFinished(w) ==
    \E exit_code \in ExitCodes, normal_exit \in BOOLEAN :
        Finished(w, exit_code, normal_exit) /\ UNCHANGED lastExit

Next ==
    \/ NewConnection
    \/ \E w \in WorkerIds : ConnectionLost(w)
    \/ \E w \in WorkerIds : WorkerDrop(w)
    \/ \E w \in WorkerIds : DeferredDelete(w)
    \/ \E w \in WorkerIds : WorkerOnData(w)
    \/ \E lines \in TextFiles : AddFile(lines)
    \/ ClearPending
    \/ HaltSave
    \/ Restore
    \/ \E w \in WorkerIds : ClientOnData(w)
    \/ \E w \in WorkerIds : ProcessFinished(w)

Spec == Init /\ [][Next]_vars

\* ------------------------------------------------------------ properties
\* the sessions in `workers`
Workers == m_clients

current(w) == sessions[w].m_assignment

JobStatusOf(k) == m_jobs[k].status

IsPrefix(s, t) == Len(s) <= Len(t) /\ SubSeq(t, 1, Len(s)) = s

\* C1: no job id is the current assignment of two worker sessions at the
\* same time.
C1_NoJobOnTwoWorkers ==
    \A w1, w2 \in Workers :
        (/\ w1 # w2
         /\ current(w1) # NoAssignment
         /\ current(w2) # NoAssignment
         /\ current(w1).id \in JobIds)
        => current(w1).id # current(w2).id

\* C2 (I2): every current assignment of a session in `workers` is a job
\* of `jobs` with status InWork, and every InWork job is the current
\* assignment of exactly one session in `workers`.
C2_CurrentIffInWork ==
    /\ \A w \in Workers :
          current(w) # NoAssignment =>
             /\ Holds(m_jobs, current(w).id)
             /\ JobStatusOf(current(w).id) = IN_WORK
    /\ \A k \in Keys :
          (Holds(m_jobs, k) /\ JobStatusOf(k) = IN_WORK) =>
             Cardinality({w \in Workers : current(w) # NoAssignment
                                          /\ current(w).id = k}) = 1

\* C3 (I1): every id in `pending` is a key of `jobs` whose record has
\* status Pending.
C3_PendingArePending ==
    \A i \in 1..Len(m_pending_jobs) :
        /\ Holds(m_jobs, m_pending_jobs[i])
        /\ JobStatusOf(m_pending_jobs[i]) = PENDING

\* C4 (I3): no id occurs twice in `pending`, and no id is in `pending`
\* and the current assignment of a session at the same time.
C4_PendingDistinct ==
    /\ \A i, j \in 1..Len(m_pending_jobs) :
          i # j => m_pending_jobs[i] # m_pending_jobs[j]
    /\ \A i \in 1..Len(m_pending_jobs) : \A w \in Workers :
          current(w) # NoAssignment => current(w).id # m_pending_jobs[i]

\* C5: a job's status only moves Pending -> InWork -> {Done, Failed}:
\* Done and Failed never change, and nothing goes back to Pending.
StatusStep(old, new) ==
    \/ new = old
    \/ old = PENDING /\ new = IN_WORK
    \/ old = IN_WORK /\ new \in {DONE, FAILED}

C5_StatusMonotonic ==
    [][\A k \in Keys :
          (Holds(m_jobs, k) /\ Holds(m_jobs', k)) =>
             StatusStep(m_jobs[k].status, m_jobs'[k].status)]_vars

\* C6 (I4): every id in `failed` is a key of `jobs` whose status is Failed.
C6_FailedAreFailed ==
    \A i \in 1..Len(m_failed_jobs) :
        /\ Holds(m_jobs, m_failed_jobs[i])
        /\ JobStatusOf(m_failed_jobs[i]) = FAILED

\* C7, as claimed: the ids dequeued from `pending` are a prefix of the ids
\* enqueued into it.
C7_DequeuedPrefixOfEnqueued == IsPrefix(deq, enq)

\* the ids enqueued, and dequeued, since the last clear pending
enqSinceClear == SubSeq(enq, enqMark + 1, Len(enq))
deqSinceClear == SubSeq(deq, deqMark + 1, Len(deq))

\* C7, amended: the ids dequeued since the last `clear pending` are a
\* prefix of the ids enqueued since then, and what is left of those is
\* the queue.
C7_FifoSinceClear ==
    /\ IsPrefix(deqSinceClear, enqSinceClear)
    /\ deqSinceClear \o m_pending_jobs = enqSinceClear

\* C7 witness: a clear dropped ids, and of two ids enqueued after it the
\* first has been dequeued while the second waits.
C7_Witness ==
    /\ enqMark > deqMark
    /\ Len(deqSinceClear) >= 1
    /\ Len(m_pending_jobs) >= 1

\* The runs in which the operator only ingests files (no clear pending,
\* haltsave or restore), under the scheduling the event loops give: a frame
\* that has arrived is handled, a subprocess ends, a deferred delete runs.
NextIngest ==
    \/ NewConnection
    \/ \E w \in WorkerIds : ConnectionLost(w)
    \/ \E w \in WorkerIds : DeferredDelete(w)
    \/ \E w \in WorkerIds : WorkerOnData(w)
    \/ \E lines \in TextFiles : AddFile(lines)
    \/ \E w \in WorkerIds : ClientOnData(w)
    \/ \E w \in WorkerIds : ProcessFinished(w)

FairSpec ==
    /\ Init
    /\ [][NextIngest]_vars
    /\ \A w \in WorkerIds :
          /\ WF_vars(WorkerOnData(w))
          /\ WF_vars(ClientOnData(w))
          /\ WF_vars(ProcessFinished(w))
          /\ WF_vars(DeferredDelete(w))

\* C8 (P2): if from some point on a worker is always connected, every
\* ingested job eventually has status Done or Failed.
C8_EveryJobTerminates ==
    (<>[](\E w \in m_clients : sessions[w].life = "live")) =>
        \A k \in JobIds :
            Holds(m_jobs, k) ~> (Holds(m_jobs, k) /\ JobStatusOf(k) \in {DONE, FAILED})

\* C9 (P5): when a session that holds an assignment is disconnected, one
\* failure with stdout "Connection closed" is processed for it: the job
\* becomes Failed and its id is appended to `failed` once; and a closed
\* session never reports an outcome again.
Closed(w) == sessions[w].life \in {"zombie", "deleted"}

C9_DisconnectFailsOnce ==
    [][\A w \in WorkerIds :
          /\ (sessions[w].life = "live" /\ Closed(w)' /\ current(w) # NoAssignment) =>
                /\ m_jobs'[current(w).id].status = FAILED
                /\ m_failed_jobs' = Append(m_failed_jobs, current(w).id)
                /\ lastFailed' = MessageFailed(current(w).id, "Connection closed", "")
                /\ done'[w] = done[w] + 1
                /\ w \notin m_clients'
          /\ Closed(w) => done'[w] = done[w]]_vars

\* C9 witness: a closed session that held job 1, which is Failed and in
\* `failed`, after the session's one outcome.
C9_Witness ==
    \E w \in WorkerIds :
        /\ Closed(w)
        /\ current(w) # NoAssignment
        /\ current(w).id = 1
        /\ JobStatusOf(1) = FAILED
        /\ m_failed_jobs = <<1>>
        /\ lastFailed = MessageFailed(1, "Connection closed", "")
        /\ done[w] = sent[w]

\* C10: a session is sent a new Assignment only after the outcome of its
\* previous one has been processed: when the Assignment goes out, every
\* earlier assignment of the session has had its outcome and the session
\* holds none.
C10_AssignAfterOutcome ==
    \A w \in WorkerIds :
        /\ atSend[w].idle
        /\ sent[w] >= 1 => atSend[w].done = sent[w] - 1
        /\ sent[w] <= done[w] + 1

\* C10 witness: a session has its second assignment.
C10_Witness ==
    \E w \in WorkerIds : sent[w] = 2 /\ done[w] = 1 /\ current(w) # NoAssignment

\* C11: haltsave writes the file only when `pending` is empty and no job
\* is InWork; a refused haltsave leaves the file as it was; an accepted one
\* writes every record of `jobs` and leaves jobs, pending, failed, workers
\* and the sessions unchanged.
C11_HaltsaveGuards ==
    [][/\ (savefile' # savefile) => (nSave' = nSave + 1)
       /\ (nSave' # nSave) =>
             /\ m_pending_jobs = << >>
             /\ \A k \in Keys : Holds(m_jobs, k) => JobStatusOf(k) # IN_WORK
             /\ savefile'.exists
             /\ HashFromStream(savefile'.stream) = m_jobs
             /\ UNCHANGED <<m_jobs, m_pending_jobs, m_failed_jobs,
                            m_clients, sessions>>]_vars

\* C11 witness: a file was written that holds a Done and a Failed job.
C11_Witness ==
    /\ savefile.exists
    /\ \E k1, k2 \in DOMAIN savefile.stream :
          /\ savefile.stream[k1].status = StatusToStream(DONE)
          /\ savefile.stream[k2].status = StatusToStream(FAILED)

\* the ids appended to `pending` by the step
enqueuedByStep == SubSeq(enq', Len(enq) + 1, Len(enq'))

\* the keys of the saved mapping whose record is Pending
SavedPending ==
    {k \in DOMAIN savefile.stream :
        StatusFromStream(savefile.stream[k].status) = PENDING}

\* C12: a restore merges into `jobs` exactly the Pending records of the
\* saved mapping and appends to `pending` exactly their ids, each once.
C12_RestoreRequeuesPending ==
    [][(nRestore' # nRestore) =>
          /\ ~crashed'
          /\ Len(enqueuedByStep) = Cardinality(SavedPending)
          /\ {enqueuedByStep[i] : i \in 1..Len(enqueuedByStep)} = SavedPending
          /\ \A k \in Keys :
                Holds(m_jobs', k) <=> (Holds(m_jobs, k) \/ k \in SavedPending)]_vars

\* `jobs` holds only Pending records, nothing is queued, and no session
\* is there to take work
OnlyPendingAtRest ==
    /\ \A k \in Keys : Holds(m_jobs, k) => JobStatusOf(k) = PENDING
    /\ m_pending_jobs = << >>
    /\ \A w \in WorkerIds : sessions[w].life \in {"unborn", "deleted"}

\* C13 (R2): restoring a file that haltsave wrote from a `jobs` of Pending
\* records only gives back `jobs` as it was and a `pending` that holds
\* every job id once.
C13_SaveRestoreRoundTrip ==
    [][(/\ nRestore' # nRestore
        /\ OnlyPendingAtRest
        /\ savefile.stream = HashToStream(m_jobs)) =>
          /\ ~crashed'
          /\ m_jobs' = m_jobs
          /\ Len(m_pending_jobs') = Cardinality({k \in Keys : Holds(m_jobs, k)})
          /\ {m_pending_jobs'[i] : i \in 1..Len(m_pending_jobs')}
                = {k \in Keys : Holds(m_jobs, k)}]_vars

\* ------------------------------------------------------- the codec on its own
\* The messages of the three kinds over a few ids and texts: the null
\* uuid, job ids and a uuid of no job; the empty text and a non-empty one.
Texts == {"", "text"}

Messages ==
    {MessageAssignment(id, c) : id \in Keys, c \in Texts}
    \cup {MessageSuccess(id, o, e) : id \in Keys, o \in Texts, e \in Texts}
    \cup {MessageFailed(id, o, e) : id \in Keys, o \in Texts, e \in Texts}

\* everything but the codec
program == <<crashed, m_jobs, m_pending_jobs, m_failed_jobs, m_clients,
             m_next_worker_id, sessions, toClient, toServer, agents, savefile,
             minted, nRestore, nSave, enq, deq, enqMark, deqMark, sent, done,
             lastFailed, atSend>>

\* a sender is about to encode message m
CodecTake(m) ==
    /\ codec.stage \in {"none", "decoded"}
    /\ codec' = [stage |-> "message", message |-> m]
    /\ UNCHANGED <<program, mainProc, lastExit>>

\* the sender calls encode_message
CodecEncode ==
    /\ codec.stage = "message"
    /\ codec' = [stage |-> "encoded", message |-> codec.message,
                 data |-> encode_message(codec.message)]
    /\ UNCHANGED <<program, mainProc, lastExit>>

\* the receiver calls decode_message on the frame
CodecDecode ==
    /\ codec.stage = "encoded"
    /\ codec' = [stage |-> "decoded", message |-> codec.message,
                 data |-> codec.data, decoded |-> decode_message(codec.data)]
    /\ UNCHANGED <<program, mainProc, lastExit>>

NextCodec ==
    \/ \E m \in Messages : CodecTake(m)
    \/ CodecEncode
    \/ CodecDecode

CodecSpec == Init /\ [][NextCodec]_vars

\* C14 (R1): decode_message(encode_message(M)) is M, for every message M
\* of the three kinds: the same variant, id and text fields.
C14_DecodeEncode ==
    codec.stage = "decoded" => codec.decoded = codec.message

\* C14 witness: a Failure with the null uuid and an empty stderr, and a
\* Success of job 1, have been through encode and decode.
C14_Witness ==
    /\ codec.stage = "decoded"
    /\ codec.message \in {MessageFailed(NullId, "text", ""), MessageSuccess(1, "", "text")}
    /\ codec.decoded.kind = codec.message.kind

\* ------------------------------------------------- frames from an unruly peer
\* The frames a peer can put on the connection whatever the other side
\* expects: an Assignment for the agent, a Success or Failure for the
\* session.
PeerAssignments == {MessageAssignment(id, "job") : id \in JobIds}

PeerOutcomes ==
    {MessageSuccess(id, "", "") : id \in JobIds}
    \cup {MessageFailed(id, "", "") : id \in JobIds}

\* an Assignment frame arrives at the agent of connection w
AssignmentArrives(w, m) ==
    /\ ~crashed
    /\ sessions[w].life = "live"
    /\ toClient[w] = << >>
    /\ Len(toServer[w]) < MaxOutcomes
    /\ toClient' = [toClient EXCEPT ![w] = <<encode_message(m)>>]
    /\ UNCHANGED <<crashed, m_jobs, m_pending_jobs, m_failed_jobs, m_clients,
                   m_next_worker_id, sessions, toServer, agents, savefile,
                   minted, codec, mainProc, lastExit, nRestore, nSave, enq, deq, enqMark, deqMark,
                   sent, done, lastFailed, atSend>>

\* a Success or Failure frame arrives at the session of connection w
OutcomeArrives(w, m) ==
    /\ ~crashed
    /\ sessions[w].life = "live"
    /\ toServer[w] = << >>
    /\ done[w] < MaxOutcomes
    /\ toServer' = [toServer EXCEPT ![w] = <<encode_message(m)>>]
    /\ UNCHANGED <<crashed, m_jobs, m_pending_jobs, m_failed_jobs, m_clients,
                   m_next_worker_id, sessions, toClient, agents, savefile,
                   minted, codec, mainProc, lastExit, nRestore, nSave, enq, deq, enqMark, deqMark,
                   sent, done, lastFailed, atSend>>

\* The agents, with a coordinator that sends Assignments when it likes and
\* has not read the replies yet.
NextAgent ==
    \/ NewConnection
    \/ \E w \in WorkerIds : ClientOnData(w)
    \/ \E w \in WorkerIds : ProcessFinished(w)
    \/ \E w \in WorkerIds, m \in PeerAssignments : AssignmentArrives(w, m)

AgentSpec == Init /\ [][NextAgent]_vars

\* The coordinator, with agents that in addition to their work send
\* Success and Failure frames when they like.
NextSession ==
    \/ NewConnection
    \/ \E lines \in TextFiles : AddFile(lines)
    \/ \E w \in WorkerIds : WorkerOnData(w)
    \/ \E w \in WorkerIds : ClientOnData(w)
    \/ \E w \in WorkerIds : ProcessFinished(w)
    \/ \E w \in WorkerIds, m \in PeerOutcomes : OutcomeArrives(w, m)

SessionSpec == Init /\ [][NextSession]_vars

\* the agent of connection w handles the frame at the head of toClient[w]
AgentTakesFrame(w) ==
    /\ toClient[w] # << >>
    /\ toClient'[w] = Tail(toClient[w])

\* C15: the agent has a subprocess exactly while it holds an assignment;
\* an Assignment that it handles while it holds one leaves the agent as
\* it is and is answered with Failure{id of the new assignment, stdout
\* "Already have assignment!"}; an assignment held is never replaced.
C15_OneAssignmentInFlight ==
    [][\A w \in WorkerIds :
          /\ agents[w].m_process <=> (agents[w].m_assignment # NoAssignment)
          /\ (/\ AgentTakesFrame(w)
              /\ decode_message(Head(toClient[w])).kind = "assignment"
              /\ agents[w].m_assignment # NoAssignment) =>
                /\ agents'[w] = agents[w]
                /\ toServer'[w] = Append(toServer[w], encode_message(
                       MessageFailed(decode_message(Head(toClient[w])).id,
                                     "Already have assignment!", "")))
          /\ (/\ agents[w].m_assignment # NoAssignment
              /\ agents'[w].m_assignment # NoAssignment) =>
                agents'[w] = agents[w]]_vars

\* C15 witness: the agent works on job 1 and has answered an Assignment of
\* job 2 with the failure.
C15_Witness ==
    \E w \in WorkerIds :
        /\ agents[w].m_process
        /\ agents[w].m_assignment.id = 1
        /\ toServer[w] = <<encode_message(
               MessageFailed(2, "Already have assignment!", ""))>>

\* the session of connection w, which stays open, handles the frame at the
\* head of toServer[w]
SessionTakesFrame(w) ==
    /\ sessions[w].life = "live"
    /\ sessions'[w].life = "live"
    /\ toServer[w] # << >>
    /\ toServer'[w] = Tail(toServer[w])

\* the id of a Success or Failure message
OutcomeId(m) == IF m.kind = "success" THEN m.completed ELSE m.failed

\* a Success or Failure that is not the outcome of what session w holds
Unexpected(w, m) ==
    /\ m.kind \in {"success", "failed"}
    /\ \/ current(w) = NoAssignment
       \/ current(w).id # OutcomeId(m)

\* C20: a Success or Failure frame whose id is not that of the session's
\* current assignment, or that comes while it has none, is ignored: the
\* coordinator goes on, and the sessions, jobs, pending and failed are as
\* before, no Assignment is sent, and the connection stays open.
C20_UnexpectedOutcomeIgnored ==
    [][\A w \in WorkerIds :
          (/\ SessionTakesFrame(w)
           /\ Unexpected(w, decode_message(Head(toServer[w])))) =>
             /\ ~crashed'
             /\ UNCHANGED <<sessions, m_jobs, m_pending_jobs, m_failed_jobs,
                            m_clients, toClient, sent>>]_vars

\* the worker ids of the sessions created so far
Created == {w \in WorkerIds : sessions[w].life # "unborn"}

\* C16, as claimed: every session's worker_id is a positive integer.
C16_WorkerIdPositive == \A w \in Created : w > 0

\* C16, amended: worker ids are the integers from 0 on, in the order of
\* connection: a new session gets an id that no session was created with
\* and that is greater than the id of every session created before, also
\* when those have disconnected.
C16_WorkerIdFresh ==
    [][/\ \A w \in Created : 0 <= w /\ w < m_next_worker_id
       /\ \A w \in WorkerIds :
             (sessions'[w].life = "live" /\ sessions[w].life # "live") =>
                /\ w \notin Created
                /\ \A v \in Created : v < w
                /\ Created' = Created \cup {w}]_vars

\* C16 witness: the first session has disconnected and a second one is
\* connected under the next id.
C16_Witness ==
    /\ Closed(0)
    /\ sessions[1].life = "live"
    /\ m_clients = {1}

\* the keys the step adds to `jobs`
addedByStep == {k \in Keys : Holds(m_jobs', k) /\ ~Holds(m_jobs, k)}

\* C17: an ingestion adds one record per non-empty line, under a fresh id,
\* with the line as command, and appends the new ids to `pending` in line
\* order; an empty line adds no record and no queue entry; the records
\* there before keep their id and command.
C17_IngestNonEmptyLines ==
    [][(minted' # minted) =>
          /\ \A k \in addedByStep :
                /\ m_jobs'[k].id = k
                /\ m_jobs'[k].command # ""
          /\ Len(enqueuedByStep) = Cardinality(addedByStep)
          /\ \A i \in 1..Len(enqueuedByStep) :
                /\ enqueuedByStep[i] \in addedByStep
                /\ \A j \in 1..Len(enqueuedByStep) :
                      i < j => enqueuedByStep[i] < enqueuedByStep[j]
          /\ \A k \in Keys :
                Holds(m_jobs, k) =>
                   /\ Holds(m_jobs', k)
                   /\ m_jobs'[k].id = m_jobs[k].id
                   /\ m_jobs'[k].command = m_jobs[k].command]_vars

\* ------------------------------------------------------------------ start-up
EXIT_FAILURE == 1

\* What a command line amounts to for main: the flags given, whether the
\* port text parses, whether the client URL is valid; and whether the port
\* can be listened on.
CommandLines ==
    [server : BOOLEAN, client : BOOLEAN, port_ok : BOOLEAN,
     url_valid : BOOLEAN, txtfile : BOOLEAN, port_free : BOOLEAN]

\* return <code> from main
main_return(code) == [mainProc EXCEPT !.pc = "returned", !.code = code]

\* main up to parser.process(a)
MainParse(args) ==
    /\ mainProc.pc = "none"
    /\ mainProc' = [pc |-> "flags", args |-> args, listening |-> FALSE,
                    client |-> FALSE, code |-> 0]
    /\ UNCHANGED <<program, codec, lastExit>>

\* main: the test of --server together with --client
MainFlags ==
    /\ mainProc.pc = "flags"
    /\ mainProc' = IF mainProc.args.server /\ mainProc.args.client
                   THEN main_return(EXIT_FAILURE)
                   ELSE [mainProc EXCEPT !.pc = "port"]
    /\ UNCHANGED <<program, codec, lastExit>>

\* main: the port is parsed with toUInt
MainPort ==
    /\ mainProc.pc = "port"
    /\ mainProc' = IF ~mainProc.args.port_ok
                   THEN main_return(EXIT_FAILURE)
                   ELSE [mainProc EXCEPT !.pc = "server"]
    /\ UNCHANGED <<program, codec, lastExit>>

\* main: with --server the Server is constructed, whose constructor
\* returns early when listen fails, and --txtfile is ingested
MainServer ==
    /\ mainProc.pc = "server"
    /\ mainProc' = [mainProc EXCEPT
                      !.pc = "client",
                      !.listening = mainProc.args.server /\ mainProc.args.port_free]
    /\ IF mainProc.args.server /\ mainProc.args.txtfile
       THEN \E lines \in TextFiles, ndebug \in Builds :
               /\ minted + Len(lines) <= MaxJobs
               /\ Handler(add_file(Coord(ndebug), lines),
                          /\ minted' = minted + Len(lines)
                          /\ UNCHANGED <<m_next_worker_id, toServer, agents, codec,
                                         lastExit, savefile, nRestore, nSave,
                                         enqMark, deqMark>>)
       ELSE UNCHANGED <<program, codec, lastExit>>

\* main: with --client the URL is tested and the Client constructed
MainClient ==
    /\ mainProc.pc = "client"
    /\ mainProc' = IF mainProc.args.client /\ ~mainProc.args.url_valid
                   THEN main_return(EXIT_FAILURE)
                   ELSE [mainProc EXCEPT !.pc = "exec",
                                         !.client = mainProc.args.client]
    /\ UNCHANGED <<program, codec, lastExit>>

NextMain ==
    \/ \E args \in CommandLines : MainParse(args)
    \/ MainFlags
    \/ MainPort
    \/ MainServer
    \/ MainClient

MainSpec == Init /\ [][NextMain]_vars

\* a start-up error: conflicting flags, a port that does not parse, an
\* invalid client URL, or a coordinator that cannot listen on its port
StartupError(args) ==
    \/ args.server /\ args.client
    \/ ~args.port_ok
    \/ args.client /\ ~args.url_valid
    \/ args.server /\ ~args.port_free

\* C19: after a start-up error main does not enter the event loop: it
\* returns a non-zero code.
C19_StartupErrorsExit ==
    (mainProc.pc \in {"exec", "returned"} /\ StartupError(mainProc.args)) =>
        (mainProc.pc = "returned" /\ mainProc.code # 0)

\* the step is a `clear pending` (one that is no stuttering step: ids were
\* enqueued or dequeued since the last one)
ClearStep == enqMark' # enqMark \/ deqMark' # deqMark

\* C18: `clear pending` leaves `pending` empty and the sessions with
\* their assignments, every job record, `failed` and `workers` as they
\* were; and a Success handled afterwards for the assignment a session
\* holds still counts as its outcome, makes the job Done and frees the
\* session (for the next job, if the step hands it one).
C18_ClearLeavesInWork ==
    [][/\ ClearStep =>
             /\ m_pending_jobs' = << >>
             /\ UNCHANGED <<crashed, sessions, m_jobs, m_failed_jobs,
                            m_clients, toClient>>
       /\ \A w \in WorkerIds :
             (/\ SessionTakesFrame(w)
              /\ current(w) # NoAssignment
              /\ decode_message(Head(toServer[w])) =
                    MessageSuccess(current(w).id, "", "")) =>
                /\ done'[w] = done[w] + 1
                /\ (sent'[w] = sent[w]) =>
                      /\ m_jobs'[current(w).id].status = DONE
                      /\ current(w)' = NoAssignment]_vars

\* C18 witness: job 1 went to a session and job 2 waited; the clear
\* dropped job 2, which is still Pending and was never dequeued; job 1
\* was completed after it (Done, and nothing was left to hand out then);
\* and an earlier failure is still listed.
C18_Witness ==
    /\ enq = <<1, 2>>
    /\ deq = <<1>>
    /\ enqMark = 2
    /\ deqMark = 1
    /\ m_pending_jobs = << >>
    /\ JobStatusOf(1) = DONE
    /\ JobStatusOf(2) = PENDING
    /\ nRestore = 0

\* ------------------------------------------------------------- stray frames
\* Frames the other side has no use for.  To the session: an Assignment,
\* bytes that are no JSON, an object with none of the three keys, a text
\* frame.  To the agent: a Success or a Failure.
StrayToSession ==
    {encode_message(MessageAssignment(id, "job")) : id \in JobIds}
    \cup {Malformed, [unknown |-> "x"], TextFrame("hello")}

StrayToAgent ==
    {encode_message(MessageSuccess(id, "", "")) : id \in JobIds}
    \cup {encode_message(MessageFailed(id, "", "")) : id \in JobIds}

\* a stray frame arrives at the session of connection w
StrayArrivesAtSession(w, f) ==
    /\ ~crashed
    /\ sessions[w].life = "live"
    /\ toServer[w] = << >>
    /\ toServer' = [toServer EXCEPT ![w] = <<f>>]
    /\ UNCHANGED <<crashed, m_jobs, m_pending_jobs, m_failed_jobs, m_clients,
                   m_next_worker_id, sessions, toClient, agents, savefile,
                   minted, codec, mainProc, lastExit, nRestore, nSave, enq,
                   deq, enqMark, deqMark, sent, done, lastFailed, atSend>>

\* a stray frame arrives at the agent of connection w
StrayArrivesAtAgent(w, f) ==
    /\ ~crashed
    /\ sessions[w].life = "live"
    /\ toClient[w] = << >>
    /\ toClient' = [toClient EXCEPT ![w] = <<f>>]
    /\ UNCHANGED <<crashed, m_jobs, m_pending_jobs, m_failed_jobs, m_clients,
                   m_next_worker_id, sessions, toServer, agents, savefile,
                   minted, codec, mainProc, lastExit, nRestore, nSave, enq,
                   deq, enqMark, deqMark, sent, done, lastFailed, atSend>>

\* Worker::on_text for the next frame from the agent of session w
WorkerOnText(w) ==
    /\ ~crashed
    /\ sessions[w].life = "live"
    /\ toServer[w] # << >>
    /\ IsTextFrame(Head(toServer[w]))
    /\ \E ndebug \in Builds :
       Handler(on_text(Coord(ndebug), w, Head(toServer[w]).text),
               /\ toServer' = [toServer EXCEPT ![w] = Tail(@)]
               /\ UNCHANGED <<m_next_worker_id, agents, savefile, minted,
                              codec, mainProc, lastExit, nRestore, nSave,
                              enqMark, deqMark>>)

\* The coordinator and its agents at work, with stray frames on the
\* connections.
NextStray ==
    \/ NewConnection
    \/ \E lines \in TextFiles : AddFile(lines)
    \/ \E w \in WorkerIds : WorkerOnData(w)
    \/ \E w \in WorkerIds : WorkerOnText(w)
    \/ \E w \in WorkerIds : ClientOnData(w)
    \/ \E w \in WorkerIds : ProcessFinished(w)
    \/ \E w \in WorkerIds, f \in StrayToSession : StrayArrivesAtSession(w, f)
    \/ \E w \in WorkerIds, f \in StrayToAgent : StrayArrivesAtAgent(w, f)

StraySpec == Init /\ [][NextStray]_vars

\* a frame the session has no use for
NoOutcome(f) ==
    \/ IsTextFrame(f)
    \/ decode_message(f).kind \in {"assignment", "monostate"}

\* C21: a session that gets an Assignment, a frame that decodes to the
\* empty message, or a text frame, takes the frame and nothing else
\* changes: not its assignment, the other sessions, jobs, pending, failed
\* or workers; nothing is sent, and the connection stays open.
C21_StrayFrameNoEffect ==
    [][\A w \in WorkerIds :
          (/\ sessions[w].life = "live"
           /\ toServer[w] # << >>
           /\ NoOutcome(Head(toServer[w]))
           /\ toServer'[w] = Tail(toServer[w])) =>
             UNCHANGED <<crashed, sessions, m_jobs, m_pending_jobs,
                         m_failed_jobs, m_clients, toClient, sent, done>>]_vars

\* C21 witness: a session that holds job 1, which is InWork, has a text
\* frame to handle.
C21_Witness ==
    \E w \in WorkerIds :
        /\ sessions[w].life = "live"
        /\ current(w) # NoAssignment
        /\ current(w).id = 1
        /\ JobStatusOf(1) = IN_WORK
        /\ toServer[w] = <<TextFrame("hello")>>
        /\ done[w] = 0

\* C22: an agent that gets a Success or a Failure from the coordinator
\* terminates: its connection is closed by the step that handles the frame.
C22_AgentBailsOnOutcome ==
    [][\A w \in WorkerIds :
          (/\ sessions[w].life = "live"
           /\ toClient[w] # << >>
           /\ decode_message(Head(toClient[w])).kind \in {"success", "failed"}
           /\ toClient'[w] # toClient[w]) =>
             sessions'[w].life # "live"]_vars

\* ----------------------------------------------------- subprocess exits seen
\* Client::on_process_finished, with what QProcess::finished reported kept
ProcessFinishedSeen(w) ==
    \E exit_code \in ExitCodes, normal_exit \in BOOLEAN :
        /\ Finished(w, exit_code, normal_exit)
        /\ lastExit' = [agent |-> w, exit_code |-> exit_code,
                        normal_exit |-> normal_exit,
                        id |-> agents[w].m_assignment.id]

\* The coordinator and its agents at work, the exits on record.
NextExit ==
    \/ NewConnection
    \/ \E lines \in TextFiles : AddFile(lines)
    \/ \E w \in WorkerIds : WorkerOnData(w)
    \/ \E w \in WorkerIds : ClientOnData(w)
    \/ \E w \in WorkerIds : ProcessFinishedSeen(w)

ExitSpec == Init /\ [][NextExit]_vars

\* the agent of connection w sends a frame in the step
AgentSends(w) == Len(toServer'[w]) > Len(toServer[w])

\* C23: the agent sends a frame only when its subprocess has finished,
\* and then exactly one: Success with the id of the assignment it holds
\* if the exit code is zero and the exit normal, Failure with that id
\* otherwise; and with that it holds no assignment and no subprocess.
C23_OneResultPerAssignment ==
    [][\A w \in WorkerIds :
          /\ AgentSends(w) =>
                /\ agents[w].m_assignment # NoAssignment
                /\ lastExit' # lastExit
          /\ (lastExit' # lastExit /\ lastExit'.agent = w) =>
                /\ lastExit'.id = agents[w].m_assignment.id
                /\ toServer'[w] = Append(toServer[w], encode_message(
                      IF lastExit'.exit_code = 0 /\ lastExit'.normal_exit
                      THEN MessageSuccess(lastExit'.id, "", "")
                      ELSE MessageFailed(lastExit'.id, "", "")))
                /\ agents'[w] = [m_assignment |-> NoAssignment,
                                 m_process |-> FALSE]]_vars

\* C23 witness: an agent reported job 1, whose subprocess ended abnormally
\* with exit code 0, and now works on job 2.
C23_Witness ==
    \E w \in WorkerIds :
        /\ lastExit # NoExit
        /\ lastExit = [agent |-> w, exit_code |-> 0, normal_exit |-> FALSE, id |-> 1]
        /\ JobStatusOf(1) = FAILED
        /\ agents[w].m_process
        /\ agents[w].m_assignment.id = 2

\* C24: between handlers the coordinator never has a non-empty `pending`
\* while a session in `workers` holds no assignment.
C24_WorkConservation ==
    ~(/\ m_pending_jobs # << >>
      /\ \E w \in m_clients : current(w) = NoAssignment)

\* C24 witness: two sessions and two jobs, both handed out; and the other
\* side: a job waits while the only session is busy.
C24_Witness ==
    \/ /\ m_clients = {0, 1}
       /\ current(0) # NoAssignment
       /\ current(1) # NoAssignment
       /\ m_pending_jobs = << >>
       /\ Len(deq) = 2
    \/ /\ m_clients = {0}
       /\ current(0) # NoAssignment
       /\ m_pending_jobs = <<2>>

\* C25: for a session that has been closed no job is dequeued and no
\* Assignment made, whatever is broadcast before its deferred delete.
C25_NoAssignmentAfterClose ==
    [][\A w \in WorkerIds :
          Closed(w) => (sent'[w] = sent[w] /\ current(w)' = current(w))]_vars

\* the frames that carry the agent's refusal of a second assignment
Refusals ==
    {encode_message(MessageFailed(id, "Already have assignment!", "")) : id \in Keys}

\* C26: while an agent has an assignment in flight, the session of its
\* connection holds the same assignment; no Assignment is on its way to
\* an agent that has one in flight, and no refusal is ever sent.
C26_AgentAndSessionAgree ==
    \A w \in WorkerIds :
        /\ (sessions[w].life = "live" /\ agents[w].m_assignment # NoAssignment) =>
              /\ current(w) # NoAssignment
              /\ current(w).id = agents[w].m_assignment.id
              /\ toClient[w] = << >>
        /\ \A i \in 1..Len(toServer[w]) : toServer[w][i] \notin Refusals

\* C26 witness: an agent works on its second job, which its session holds.
C26_Witness ==
    \E w \in WorkerIds :
        /\ sessions[w].life = "live"
        /\ done[w] = 1
        /\ agents[w].m_process
        /\ agents[w].m_assignment.id = current(w).id
        /\ sent[w] = 2
====
